---- MODULE Spec2Model ----
(***************************************************************************)
(* Model of edider/x11read.py: the X11/RandR reader of python-edider.      *)
(*                                                                         *)
(* The display server is the environment: it answers each RandR request    *)
(* either with a reply or with an XError.  Every property of X11Output and *)
(* Monitor is one action that runs the whole property, every get_window    *)
(* scope it opens included.  Python values are modelled as follows:        *)
(*   - a dict is a function whose domain is the set of its keys;           *)
(*   - an attribute that may be missing (_edid, _info, _modes) is a        *)
(*     sequence of length 0 (missing) or 1 (set);                          *)
(*   - the outcome of a call is a record [ok, err, val]: a returned value  *)
(*     or the name of the exception that leaves the call.                  *)
(***************************************************************************)
EXTENDS Integers, Sequences, FiniteSets, TLC

VARIABLES
    srvOutputOk,   \* the server knows the output id (requests on it are answered)
    srvInfo,       \* the server's output info (_data of get_output_info)
    srvCrtc,       \* the server's CRTC table: crtc id -> index of its reply
    srvModes,      \* the server's screen mode list (res._data['modes'])
    srvEdid,       \* the server's EDID property value (list of CARD8)
    xout,          \* the X11Output instance: its _edid, _info, _modes attributes
    lastOp,        \* the operation that ran last
    lastArg,       \* the arguments of that operation (crtc_info's ids)
    lastRes,       \* its outcome
    scopes,        \* the get_window scopes that operation opened, in order
    edidQueries,   \* number of get_output_property requests sent so far
    edidFirst      \* the bytes the first successful read of edid returned

vars == <<srvOutputOk, srvInfo, srvCrtc, srvModes, srvEdid,
          xout, lastOp, lastArg, lastRes, scopes, edidQueries, edidFirst>>

----------------------------------------------------------------------------
(* Bounds of the model *)

\* get_output_property requests the model follows
MaxEdidQueries == 2

----------------------------------------------------------------------------
(* Python values *)

Range(s) == {s[k] : k \in DOMAIN s}

\* a dict given by its keys and a total assignment
Dict(keys, full) == [f \in keys |-> full[f]]

EmptyDict == Dict({}, [f \in {} |-> 0])

Ok(v) == [ok |-> TRUE, err |-> "none", val |-> v]

Raise(e) == [ok |-> FALSE, err |-> e, val |-> <<>>]

\* seq[i] as Python evaluates it: a negative index counts from the end
PyIndex(seq, i) ==
    LET j == IF i < 0 THEN i + Len(seq) ELSE i
    IN  IF j < 0 \/ j >= Len(seq) THEN Raise("IndexError") ELSE Ok(seq[j + 1])

\* d[key] on a dict
PyGetItem(d, key) ==
    IF key \in DOMAIN d THEN Ok(d[key]) ELSE Raise("KeyError")

\* [x for x in seq if x['id'] == id]
WithId(seq, id) == SelectSeq(seq, LAMBDA x : x["id"] = id)

\* bytes(value) on a list of integers: one byte per element, each in 0..255
Bytes(value) ==
    IF \A k \in DOMAIN value : value[k] \in 0..255
    THEN Ok([k \in 1..Len(value) |-> value[k]])
    ELSE Raise("ValueError")

----------------------------------------------------------------------------
(* The display server *)

Outputs == {1, 2}

CrtcIds == {1, 2}

Mode(id, w, h) ==
    Dict({"id", "width", "height"},
         [f \in {"id", "width", "height"} |->
            CASE f = "id" -> id [] f = "width" -> w [] f = "height" -> h])

CrtcFields == {"x", "y", "width", "height", "mode"}

CrtcData(x, y, w, h, m) ==
    [f \in CrtcFields |->
        CASE f = "x" -> x [] f = "y" -> y [] f = "width" -> w
          [] f = "height" -> h [] f = "mode" -> m]

\* the replies a CRTC query can carry
CrtcReplies ==
    << Dict(CrtcFields, CrtcData(5, 6, 7, 8, 20)),
       Dict(CrtcFields, CrtcData(0, 0, 0, 0, 0)),
       Dict({"x", "y", "mode"}, CrtcData(5, 6, 7, 8, 10)) >>

\* the CRTC tables the server can hold: 0 marks an id the server rejects
CrtcTables ==
    { [c \in CrtcIds |-> IF c = 1 THEN k ELSE 0] : k \in 0..Len(CrtcReplies) }

\* the screen mode lists the server can hold
ModeLists ==
    { << Mode(10, 1, 1), Mode(20, 2, 2) >>,
      << Mode(10, 1, 1), Mode(20, 2, 2), Mode(20, 3, 3) >>,
      << Mode(10, 1, 1) >> }

\* the output infos the server can hold
OutputInfos ==
    { [crtc |-> c, crtcs |-> <<1, 2>>, modes |-> mn[1], num_preferred |-> mn[2]] :
        c \in {0, 1},
        mn \in { <<<<>>, 0>>, <<<<10, 20>>, 0>>, <<<<10, 20>>, 1>>,
                 <<<<10, 20>>, 2>>, <<<<10, 20>>, 3>> } }

EdidValues == { <<0, 255>>, <<0, 255, 1>> }

\* randr.get_output_info(win, idx, 0)._data
get_output_info ==
    IF srvOutputOk THEN Ok(srvInfo) ELSE Raise("XError")

\* randr.get_output_property(win, idx, EDID, INTEGER, 0, 400).value
get_output_property ==
    IF srvOutputOk THEN Ok(srvEdid) ELSE Raise("XError")

\* randr.get_crtc_info(win, idx, 0)._data: id 0 names no controller
get_crtc_info(idx) ==
    IF idx \in DOMAIN srvCrtc /\ srvCrtc[idx] # 0
    THEN Ok(CrtcReplies[srvCrtc[idx]])
    ELSE Raise("XError")

\* randr.get_screen_resources(win)._data['modes']
get_screen_resources == Ok(srvModes)

\* randr.get_output_primary(window).output, the server naming output p
get_output_primary(p) == Ok(p)

----------------------------------------------------------------------------
(* get_window: the body of the generator runs `yield window` and, when it  *)
(* is resumed normally, `window.destroy()`.  bodyExit says how the with    *)
(* block leaves the scope: "normal", "error" (an exception is thrown into  *)
(* the generator at the yield, GeneratorExit included), or "suspended"     *)
(* (the block is a generator frame that is never resumed).                 *)

get_window(bodyExit) ==
    [exit |-> bodyExit, destroyed |-> (bodyExit = "normal")]

\* the scope of a with block whose body has outcome r
ScopeOf(r) == get_window(IF r.ok THEN "normal" ELSE "error")

\* an outcome together with the instance after the call and the scopes used
Out(r, self, ss) == [res |-> r, self |-> self, scopes |-> ss]

----------------------------------------------------------------------------
(* X11Output *)

NewX11Output == [_edid |-> <<>>, _info |-> <<>>, _modes |-> <<>>]

\* edid without its cache: every read queries the server
edid_uncached(self) ==
    LET q == get_output_property
        r == IF q.ok THEN Bytes(q.val) ELSE q
    IN  Out(r, self, <<ScopeOf(r)>>)

\* the EDID atom is looked up on a connection of its own, which creates no
\* window; the property is then read inside one get_window scope
edid(self) ==
    IF Len(self._edid) = 1
    THEN Out(Ok(self._edid[1]), self, <<>>)
    ELSE LET q == get_output_property
             r == IF q.ok THEN Bytes(q.val) ELSE q
         IN  Out(r,
                 IF r.ok THEN [self EXCEPT !._edid = <<r.val>>] ELSE self,
                 <<ScopeOf(r)>>)

idx_primary(self, p) ==
    LET r == get_output_primary(p)
    IN  Out(r, self, <<ScopeOf(r)>>)

info(self) ==
    IF Len(self._info) = 1
    THEN Out(Ok(self._info[1]), self, <<>>)
    ELSE LET r == get_output_info
         IN  Out(r,
                 IF r.ok THEN [self EXCEPT !._info = <<r.val>>] ELSE self,
                 <<ScopeOf(r)>>)

CRTCInfo(idx, inf) == [idx |-> idx, info |-> inf]

\* one turn of the loop of crtc_info, the query propagating its XError
crtc_info_item_nocatch(idx) ==
    LET q == get_crtc_info(idx)
    IN  IF q.ok THEN Ok(CRTCInfo(idx, q.val)) ELSE q

\* one turn of the loop of crtc_info: the try/except around the query and
\* the value yielded
crtc_info_item(idx) ==
    LET q == get_crtc_info(idx)
        inf == IF q.ok THEN q.val
               ELSE IF q.err = "XError" THEN EmptyDict
               ELSE <<>>
    IN  IF ~q.ok /\ q.err # "XError" THEN q ELSE Ok(CRTCInfo(idx, inf))

\* crtc_info(*ids) driven by its consumer: next(...) takes the first element
\* and drops the generator, list(...) runs it to its end.  A dropped
\* generator is closed at once when gc = "prompt" (reference counting:
\* GeneratorExit is raised at its yield, inside the with block) and stays
\* suspended when gc = "deferred".
crtc_info(ids, consumer, gc) ==
    LET items == [k \in 1..Len(ids) |-> crtc_info_item(ids[k])]
        bad == {k \in 1..Len(ids) : ~items[k].ok}
        firstBad == CHOOSE k \in bad : \A j \in bad : k <= j
    IN  IF consumer = "list"
        THEN IF bad = {}
             THEN [res |-> Ok([k \in 1..Len(ids) |-> items[k].val]),
                   scopes |-> <<get_window("normal")>>]
             ELSE [res |-> items[firstBad], scopes |-> <<get_window("error")>>]
        ELSE IF Len(ids) = 0
             THEN [res |-> Raise("StopIteration"),
                   scopes |-> <<get_window("normal")>>]
             ELSE IF ~items[1].ok
                  THEN [res |-> items[1], scopes |-> <<get_window("error")>>]
                  ELSE [res |-> items[1],
                        scopes |-> <<get_window(IF gc = "prompt" THEN "error"
                                                ELSE "suspended")>>]

GcChoices == {"prompt", "deferred"}

crtc(self, gc) ==
    LET i == info(self)
    IN  IF ~i.res.ok THEN i
        ELSE LET g == crtc_info(<<i.res.val.crtc>>, "next", gc)
             IN  Out(g.res, i.self, i.scopes \o g.scopes)

crtcs(self) ==
    LET i == info(self)
    IN  IF ~i.res.ok THEN i
        ELSE LET g == crtc_info(i.res.val.crtcs, "list", "prompt")
             IN  Out(g.res, i.self, i.scopes \o g.scopes)

_get_modes(self) ==
    LET r == get_screen_resources
    IN  Out(r, self, <<ScopeOf(r)>>)

modes(self) ==
    IF Len(self._modes) = 1
    THEN Out(Ok(self._modes[1]), self, <<>>)
    ELSE LET g == _get_modes(self)
         IN  Out(g.res,
                 IF g.res.ok THEN [g.self EXCEPT !._modes = <<g.res.val>>]
                 ELSE g.self,
                 g.scopes)

\* the lookup shared by preferred_mode and current_mode: the comprehension,
\* the assertion and modes[0]
TheOne(modeList, id) ==
    LET found == WithId(modeList, id)
    IN  IF Len(found) = 1 THEN Ok(found[1]) ELSE Raise("AssertionError")

\* preferred_mode reading info['modes'][npref] instead of [npref-1]
preferred_mode_zero_based(self) ==
    LET i == info(self)
    IN  IF ~i.res.ok THEN i
        ELSE LET n == PyIndex(i.res.val.modes, i.res.val.num_preferred)
             IN  IF ~n.ok THEN Out(n, i.self, i.scopes)
                 ELSE LET m == modes(i.self)
                      IN  IF ~m.res.ok
                          THEN Out(m.res, m.self, i.scopes \o m.scopes)
                          ELSE Out(TheOne(m.res.val, n.val), m.self,
                                   i.scopes \o m.scopes)

preferred_mode(self) ==
    LET i == info(self)
    IN  IF ~i.res.ok THEN i
        ELSE LET n == PyIndex(i.res.val.modes, i.res.val.num_preferred - 1)
             IN  IF ~n.ok THEN Out(n, i.self, i.scopes)
                 ELSE LET m == modes(i.self)
                      IN  IF ~m.res.ok
                          THEN Out(m.res, m.self, i.scopes \o m.scopes)
                          ELSE Out(TheOne(m.res.val, n.val), m.self,
                                   i.scopes \o m.scopes)

\* current_mode reading the cached self.modes instead of _get_modes()
current_mode_cached(self, gc) ==
    LET g == modes(self)
    IN  IF ~g.res.ok THEN g
        ELSE LET c == crtc(g.self, gc)
                 ss == g.scopes \o c.scopes
             IN  IF ~c.res.ok THEN Out(c.res, c.self, ss)
                 ELSE LET k == PyGetItem(c.res.val.info, "mode")
                      IN  IF ~k.ok THEN Out(Ok(EmptyDict), c.self, ss)
                          ELSE Out(TheOne(g.res.val, k.val), c.self, ss)

current_mode(self, gc) ==
    LET g == _get_modes(self)
    IN  IF ~g.res.ok THEN g
        ELSE LET c == crtc(g.self, gc)
                 ss == g.scopes \o c.scopes
             IN  IF ~c.res.ok THEN Out(c.res, c.self, ss)
                 ELSE LET k == PyGetItem(c.res.val.info, "mode")
                      IN  IF ~k.ok THEN Out(Ok(EmptyDict), c.self, ss)
                          ELSE Out(TheOne(g.res.val, k.val), c.self, ss)

----------------------------------------------------------------------------
(* Monitor: self is its _xout *)

\* status deciding by the CRTC info being empty instead of the id being 0
status_by_info(self, gc) ==
    LET c == crtc(self, gc)
    IN  IF ~c.res.ok THEN c
        ELSE Out(Ok(IF DOMAIN c.res.val.info = {} THEN "off" ELSE "on"),
                 c.self, c.scopes)

status(self, gc) ==
    LET c == crtc(self, gc)
    IN  IF ~c.res.ok THEN c
        ELSE Out(Ok(IF c.res.val.idx = 0 THEN "off" ELSE "on"),
                 c.self, c.scopes)

\* d.get(key, 0)
GetOrZero(d, key) == IF key \in DOMAIN d THEN d[key] ELSE 0

\* geometry defaulting each missing field on its own
geometry_per_field(self, gc) ==
    LET c == crtc(self, gc)
    IN  IF ~c.res.ok THEN c
        ELSE LET d == c.res.val.info
             IN  Out(Ok(<<GetOrZero(d, "x"), GetOrZero(d, "y"),
                          GetOrZero(d, "width"), GetOrZero(d, "height")>>),
                     c.self, c.scopes)

geometry(self, gc) ==
    LET c == crtc(self, gc)
    IN  IF ~c.res.ok THEN c
        ELSE LET d == c.res.val.info
                 x == PyGetItem(d, "x")
                 y == PyGetItem(d, "y")
                 width == PyGetItem(d, "width")
                 height == PyGetItem(d, "height")
             IN  IF x.ok /\ y.ok /\ width.ok /\ height.ok
                 THEN Out(Ok(<<x.val, y.val, width.val, height.val>>),
                          c.self, c.scopes)
                 ELSE Out(Ok(<<0, 0, 0, 0>>), c.self, c.scopes)

----------------------------------------------------------------------------
(* Actions: one per operation *)

\* the id lists crtc_info is called with
IdLists == { <<0>>, <<2>>, <<0, 0>>, <<1, 0>> }

Ran(op, arg, o) ==
    /\ xout' = o.self
    /\ lastOp' = op
    /\ lastArg' = arg
    /\ lastRes' = o.res
    /\ scopes' = o.scopes

ServerUnchanged ==
    UNCHANGED <<srvOutputOk, srvInfo, srvCrtc, srvModes, srvEdid>>

\* a read that would send a request runs only while the model follows them
Edid ==
    /\ Len(xout._edid) = 1 \/ edidQueries < MaxEdidQueries
    /\ Ran("edid", <<>>, edid(xout))
    /\ edidQueries' = edidQueries + Len(edid(xout).scopes)
    /\ edidFirst' = IF edidFirst = <<>> /\ edid(xout).res.ok
                    THEN <<edid(xout).res.val>>
                    ELSE edidFirst
    /\ ServerUnchanged

Info ==
    /\ Ran("info", <<>>, info(xout))
    /\ ServerUnchanged
    /\ UNCHANGED <<edidQueries, edidFirst>>

IdxPrimary ==
    /\ \E p \in Outputs : Ran("idx_primary", <<p>>, idx_primary(xout, p))
    /\ ServerUnchanged
    /\ UNCHANGED <<edidQueries, edidFirst>>

CrtcInfo ==
    /\ \E ids \in IdLists :
          LET g == crtc_info(ids, "list", "prompt")
          IN  Ran("crtc_info", ids, Out(g.res, xout, g.scopes))
    /\ ServerUnchanged
    /\ UNCHANGED <<edidQueries, edidFirst>>

Crtc ==
    /\ \E gc \in GcChoices : Ran("crtc", <<>>, crtc(xout, gc))
    /\ ServerUnchanged
    /\ UNCHANGED <<edidQueries, edidFirst>>

Crtcs ==
    /\ Ran("crtcs", <<>>, crtcs(xout))
    /\ ServerUnchanged
    /\ UNCHANGED <<edidQueries, edidFirst>>

Modes ==
    /\ Ran("modes", <<>>, modes(xout))
    /\ ServerUnchanged
    /\ UNCHANGED <<edidQueries, edidFirst>>

PreferredMode ==
    /\ Ran("preferred_mode", <<>>, preferred_mode(xout))
    /\ ServerUnchanged
    /\ UNCHANGED <<edidQueries, edidFirst>>

CurrentMode ==
    /\ \E gc \in GcChoices : Ran("current_mode", <<>>, current_mode(xout, gc))
    /\ ServerUnchanged
    /\ UNCHANGED <<edidQueries, edidFirst>>

Status ==
    /\ \E gc \in GcChoices : Ran("status", <<>>, status(xout, gc))
    /\ ServerUnchanged
    /\ UNCHANGED <<edidQueries, edidFirst>>

Geometry ==
    /\ \E gc \in GcChoices : Ran("geometry", <<>>, geometry(xout, gc))
    /\ ServerUnchanged
    /\ UNCHANGED <<edidQueries, edidFirst>>

(* The server changes between two operations of the program *)

ServerSetEdid ==
    /\ \E e \in EdidValues \ {srvEdid} : srvEdid' = e
    /\ UNCHANGED <<srvOutputOk, srvInfo, srvCrtc, srvModes,
                   xout, lastOp, lastArg, lastRes, scopes, edidQueries,
                   edidFirst>>

ServerSetModes ==
    /\ \E ms \in ModeLists \ {srvModes} : srvModes' = ms
    /\ UNCHANGED <<srvOutputOk, srvInfo, srvCrtc, srvEdid,
                   xout, lastOp, lastArg, lastRes, scopes, edidQueries,
                   edidFirst>>

ServerSetOutput ==
    /\ srvOutputOk' = ~srvOutputOk
    /\ UNCHANGED <<srvInfo, srvCrtc, srvModes, srvEdid,
                   xout, lastOp, lastArg, lastRes, scopes, edidQueries,
                   edidFirst>>

Init ==
    /\ srvOutputOk \in BOOLEAN
    /\ srvInfo \in OutputInfos
    /\ srvCrtc \in CrtcTables
    /\ srvModes \in ModeLists
    /\ srvEdid = <<0, 255>>
    /\ xout = NewX11Output
    /\ lastOp = "none"
    /\ lastArg = <<>>
    /\ lastRes = Ok(<<>>)
    /\ scopes = <<>>
    /\ edidQueries = 0
    /\ edidFirst = <<>>

\* the operations that read the output, its CRTCs and the screen's modes
Next ==
    \/ Info
    \/ IdxPrimary
    \/ CrtcInfo
    \/ Crtc
    \/ Crtcs
    \/ Modes
    \/ PreferredMode
    \/ CurrentMode
    \/ Status
    \/ Geometry
    \/ ServerSetModes
    \/ ServerSetOutput

Spec == Init /\ [][Next]_vars

\* the EDID property: its reads on one X11Output while the server changes it
InitEdid ==
    /\ srvOutputOk \in BOOLEAN
    /\ srvInfo \in OutputInfos
    /\ srvCrtc \in CrtcTables
    /\ srvModes = << Mode(10, 1, 1), Mode(20, 2, 2) >>
    /\ srvEdid \in EdidValues
    /\ xout = NewX11Output
    /\ lastOp = "none"
    /\ lastArg = <<>>
    /\ lastRes = Ok(<<>>)
    /\ scopes = <<>>
    /\ edidQueries = 0
    /\ edidFirst = <<>>

NextEdid ==
    \/ Edid
    \/ Info
    \/ ServerSetEdid
    \/ ServerSetOutput

SpecEdid == InitEdid /\ [][NextEdid]_vars

----------------------------------------------------------------------------
(* Properties *)

\* the output info the last operation resolved (the cached _info)
TheInfo == xout._info[1]

\* the CRTC info record crtc resolves for the output's CRTC id
TheCrtcInfo == crtc_info_item(TheInfo.crtc).val.info

\* the positions of modeList whose id is id
Matches(modeList, id) == {k \in DOMAIN modeList : modeList[k]["id"] = id}

\* the outcome of looking id up in modeList: the one entry, or the assertion
LooksUp(r, modeList, id) ==
    IF Cardinality(Matches(modeList, id)) = 1
    THEN r.ok /\ \E k \in Matches(modeList, id) : r.val = modeList[k]
    ELSE ~r.ok /\ r.err = "AssertionError"

GeometryFields == {"x", "y", "width", "height"}

\* C1: every get_window scope that has exited, normally or by an error
\* raised in its body, has destroyed its window.
C1_ScopeExitDestroysWindow ==
    \A k \in DOMAIN scopes :
        scopes[k].exit \in {"normal", "error"} => scopes[k].destroyed

\* C2: crtc_info called with controller id 0 does not raise; it yields the
\* pair (0, {}) for it, also when crtc resolves an output whose CRTC id is 0.
C2_CrtcInfoZeroYieldsEmpty ==
    /\ (lastOp = "crtc_info" /\ \A k \in DOMAIN lastArg : lastArg[k] = 0)
          => /\ lastRes.ok
             /\ lastRes.val = [k \in DOMAIN lastArg |-> CRTCInfo(0, EmptyDict)]
    /\ (lastOp = "crtc" /\ Len(xout._info) = 1 /\ TheInfo.crtc = 0)
          => /\ lastRes.ok
             /\ lastRes.val = CRTCInfo(0, EmptyDict)

C2_Witness ==
    /\ lastOp = "crtc_info"
    /\ lastArg = <<0>>
    /\ lastRes.ok
    /\ lastRes.val = <<CRTCInfo(0, EmptyDict)>>

\* C3: a call of crtc_info in which the query of a controller id other than
\* 0 fails raises that failure to its caller.
C3_OtherFailurePropagates ==
    (/\ lastOp = "crtc_info"
     /\ \E k \in DOMAIN lastArg :
            lastArg[k] # 0 /\ ~get_crtc_info(lastArg[k]).ok)
        => ~lastRes.ok

\* C4: status is "off" exactly when the CRTC id of the output is 0, whatever
\* the CRTC info record holds.
C4_StatusOffIffCrtcZero ==
    (lastOp = "status" /\ lastRes.ok)
        => (lastRes.val = "off" <=> TheInfo.crtc = 0)

C4_Witness ==
    /\ lastOp = "status"
    /\ lastRes.ok
    /\ lastRes.val = "on"
    /\ TheInfo.crtc # 0
    /\ DOMAIN TheCrtcInfo = {}

\* C5: geometry is the reported (x, y, width, height) when the CRTC info has
\* all four fields, and (0, 0, 0, 0) when it lacks any of them.
C5_GeometryAllOrNothing ==
    (lastOp = "geometry" /\ lastRes.ok)
        => IF GeometryFields \subseteq DOMAIN TheCrtcInfo
           THEN lastRes.val = <<TheCrtcInfo["x"], TheCrtcInfo["y"],
                                TheCrtcInfo["width"], TheCrtcInfo["height"]>>
           ELSE lastRes.val = <<0, 0, 0, 0>>

C5_Witness ==
    /\ lastOp = "geometry"
    /\ lastRes.ok
    /\ "x" \in DOMAIN TheCrtcInfo
    /\ TheCrtcInfo["x"] # 0
    /\ "width" \notin DOMAIN TheCrtcInfo
    /\ lastRes.val = <<0, 0, 0, 0>>

\* C6: with num_preferred a valid 1-based index into info.modes,
\* preferred_mode returns the one entry of the (cached) screen mode list whose
\* id is info.modes[num_preferred - 1], and fails with an assertion when no
\* entry or more than one entry has that id.
C6_PreferredModeLookup ==
    (/\ lastOp = "preferred_mode"
     /\ Len(xout._info) = 1
     /\ TheInfo.num_preferred \in 1..Len(TheInfo.modes))
        => /\ Len(xout._modes) = 1
           /\ LooksUp(lastRes, xout._modes[1],
                      TheInfo.modes[TheInfo.num_preferred])

C6_Witness ==
    /\ lastOp = "preferred_mode"
    /\ lastRes.ok
    /\ TheInfo.num_preferred = 2
    /\ TheInfo.modes = <<10, 20>>
    /\ lastRes.val = Mode(20, 2, 2)

\* what current_mode has returned, given the screen mode list the server
\* holds while it runs
CurrentModeResult ==
    Len(xout._info) = 1
        => IF "mode" \notin DOMAIN TheCrtcInfo
           THEN lastRes.ok /\ lastRes.val = EmptyDict
           ELSE LooksUp(lastRes, srvModes, TheCrtcInfo["mode"])

\* C7: current_mode returns an empty mapping when the CRTC info has no mode
\* field; otherwise it looks the mode id up in the screen mode list the
\* server holds at that moment (not in the cached one): the one entry with
\* that id, or an assertion failure for no entry or several.
C7_CurrentModeFresh == [][CurrentMode => CurrentModeResult']_vars

C7_Witness ==
    /\ lastOp = "current_mode"
    /\ lastRes.ok
    /\ "mode" \in DOMAIN TheCrtcInfo
    /\ lastRes.val \in Range(srvModes)
    /\ Len(xout._modes) = 1
    /\ Matches(xout._modes[1], TheCrtcInfo["mode"]) = {}

\* C8 as stated: over any sequence of reads of edid the property is queried
\* at most once, and every successful read returns the bytes of the first.
C8_EdidQueriedAtMostOnce ==
    /\ edidQueries <= 1
    /\ (lastOp = "edid" /\ lastRes.ok /\ Len(edidFirst) = 1)
          => lastRes.val = edidFirst[1]

\* C8 amended: once a read of edid has succeeded, no later step queries the
\* property again and every later read returns the bytes of that first
\* successful read, whatever the server holds by then.
C8_EdidCachedAfterSuccess ==
    [][Len(edidFirst) = 1
          => /\ edidQueries' = edidQueries
             /\ lastOp' = "edid" => (lastRes'.ok /\ lastRes'.val = edidFirst[1])
      ]_vars

\* a read answered from the cache after the server's property has changed
C8_Witness ==
    /\ lastOp = "edid"
    /\ lastRes.ok
    /\ scopes = <<>>
    /\ Bytes(srvEdid).val # lastRes.val

\* C9: after an operation has returned normally, every window it created
\* has been destroyed.
C9_NoWindowLeftAfterReturn ==
    (lastOp # "none" /\ lastRes.ok)
        => \A k \in DOMAIN scopes : scopes[k].destroyed

\* C10: preferred_mode returns a mode only when num_preferred is a valid
\* 1-based index into info.modes.
C10_PreferredNeedsValidIndex ==
    (lastOp = "preferred_mode" /\ lastRes.ok)
        => TheInfo.num_preferred \in 1..Len(TheInfo.modes)

====
